---- MODULE Spec2Model ----
(***************************************************************************)
(* TravestyClient (src/src/index.ts): the connection lifecycle (login,     *)
(* logout, socket events, the reconnect timer) and the handling of the     *)
(* frames the socket delivers (the new_message / new_notification pairing  *)
(* and the publication of client events to the registered listeners).      *)
(*                                                                         *)
(* Time is counted in seconds: setTimeout(..., 5000) is a timer of         *)
(* ReconnectDelay = 5 ticks.  A timer records the time it still has to     *)
(* wait; it can fire once that is 0, and not before.                       *)
(***************************************************************************)
EXTENDS Integers, Sequences, FiniteSets, TLC

\* ---------------------------------------------------------------- bounds
MaxSockets == 2      \* sockets that are alive (not yet closed) at one time
MaxTimers == 2       \* reconnect timers pending at one time
MaxDirect == 1       \* login() calls of the application awaiting their response
MaxListeners == 2    \* listeners registered on the client, all kinds together

\* ------------------------------------------------------ program constants
ReconnectDelay == 5  \* setTimeout(() => this.reconnect(), 5000), in seconds

\* ------------------------------------------------------------ JS values
\* Every JavaScript value that travels through a frame is a record tagged
\* with its type, so that values of different types can be compared.
Undefined == [t |-> "undefined"]
JNull == [t |-> "null"]
Str(s) == [t |-> "string", v |-> s]
Obj(props) == [t |-> "object", p |-> props]

\* o.k : reading a property an object does not have gives undefined.
Get(o, k) == IF o.t = "object" /\ k \in DOMAIN o.p THEN o.p[k] ELSE Undefined

\* o.k = v : the object is changed in place.
Put(o, k, v) ==
  [o EXCEPT !.p = [x \in (DOMAIN o.p) \cup {k} |-> IF x = k THEN v ELSE o.p[x]]]

\* Reading a property of undefined or null raises a TypeError.
Nullish(v) == v.t \in {"undefined", "null"}

\* if (v) : null, undefined and the empty string are falsy.
Truthy(v) == ~Nullish(v) /\ v # Str("")

\* ---------------------------------------------------------------- state
Null == "null"                       \* the null of the client's own fields
Cookies == {"vlk=1"}                 \* the session cookie the server issues
Emails == {"a@b"}
Passwords == {"pw"}

EventKinds == {"messageCreate", "messageDelete", "typing", "reactionAdd",
               "reactionRemove", "memberRolesUpdate", "raw", "logout"}

VARIABLES
  urlValid,          \* whether baseUrl gives a URL the WebSocket constructor accepts
  cookie,            \* this.cookie
  email,             \* this.email
  password,          \* this.password
  ws,                \* this.ws: 0 is null, else the socket it refers to
  socks,             \* the WebSocket objects: their state and handshake cookie
  reconnectTimeout,  \* this.reconnectTimeout: 0 is null, else the timer handle
  timers,            \* the timers made by setTimeout
  logins,            \* the login() calls awaiting their HTTP response
  lastMessage,       \* this.lastMessage
  listeners,         \* the listeners registered with on(), per event kind
  sinceClose,        \* seconds since the last socket close event (history)
  afterLogout,       \* logout() was called and login() not since (history)
  whileScheduled,    \* that logout() found a reconnect scheduled (history)
  track,             \* the new_message frames seen since (history)
  obs                \* what the last step did (history)

vars == <<urlValid, cookie, email, password, ws, socks, reconnectTimeout,
          timers, logins, lastMessage, listeners, sinceClose, afterLogout,
          whileScheduled, track, obs>>

SockIds == 1..MaxSockets
TimerIds == 1..MaxTimers

FreeSock == [st |-> "free", hs |-> Null]
FreeTimer == [st |-> "free", rem |-> 0]

\* A closed socket that this.ws no longer refers to, and a timer that fired
\* or was cleared and that this.reconnectTimeout no longer refers to, can
\* not be reached by the program any more: their slots are given back.
CollectSocks(ss, w) ==
  [i \in SockIds |-> IF ss[i].st = "closed" /\ i # w THEN FreeSock ELSE ss[i]]

CollectTimers(ts, h) ==
  [i \in TimerIds |-> IF ts[i].st = "done" /\ i # h THEN FreeTimer ELSE ts[i]]

Min(S) == CHOOSE x \in S : \A y \in S : x <= y

Live(ss) ==
  {i \in SockIds : ss[i].st \in {"connecting", "open", "closing", "aborting"}}
Pending(ts) == {i \in TimerIds : ts[i].st = "pending"}
ViaReconnect == {i \in 1..Len(logins) : logins[i].via = "reconnect"}
ViaDirect == {i \in 1..Len(logins) : logins[i].via = "direct"}

\* Slots kept for the reconnect path: each pending timer and each re-login
\* in flight may come to open a socket.
Reserved == Cardinality(Pending(timers)) + Cardinality(ViaReconnect)

\* What a step is observed to do; every action starts from Quiet.
NoFrame == [t |-> "none"]
Quiet ==
  [op |-> "init", frame |-> NoFrame, pending |-> FALSE, kept |-> TRUE,
   events |-> <<>>, invoked |-> <<>>, raised |-> FALSE, made |-> FALSE,
   stored |-> FALSE, armed |-> 0, stale |-> FALSE, via |-> "none"]

\* The timers a step sets, less those it clears.
Armed(before, after) == Cardinality(Pending(after)) - Cardinality(Pending(before))

\* ------------------------------------------------------------- emitter
\* EventEmitter.emit calls the listeners of the kind one after the other, in
\* the order they were registered; an exception of a listener leaves emit at
\* once, so the listeners after it are not called and the caller of emit
\* sees the exception.
FirstThrow(ls) ==
  IF \E i \in 1..Len(ls) : ls[i] = "throws"
  THEN Min({i \in 1..Len(ls) : ls[i] = "throws"})
  ELSE 0

Emit(kind, payload) ==
  LET ls == listeners[kind]
      k == FirstThrow(ls)
      n == IF k = 0 THEN Len(ls) ELSE k
  IN [events |-> <<[kind |-> kind, payload |-> payload]>>,
      invoked |-> [i \in 1..n |-> i],
      raised |-> k # 0]

RECURSIVE SumLen(_, _)
SumLen(f, S) ==
  IF S = {} THEN 0
  ELSE LET k == CHOOSE x \in S : TRUE IN Len(f[k]) + SumLen(f, S \ {k})

Registered == SumLen(listeners, EventKinds)

\* on(event, listener): the listener is put after those of its kind.
On(kind, behaviour) ==
  /\ Registered < MaxListeners
  /\ listeners' = [listeners EXCEPT ![kind] = Append(@, behaviour)]
  /\ obs' = [Quiet EXCEPT !.op = "on"]
  /\ UNCHANGED <<urlValid, cookie, email, password, ws, socks,
                 reconnectTimeout, timers, logins, lastMessage, sinceClose,
                 afterLogout, whileScheduled, track>>

\* ------------------------------------------------------------ connectWS
\* setTimeout(() => this.reconnect(), 5000) assigned to this.reconnectTimeout:
\* the timer that was there before is not cleared.
SetReconnectTimeout(ts) ==
  LET i == Min({j \in TimerIds : ts[j].st \in {"free", "done"}})
  IN [handle |-> i,
      timers |-> CollectTimers(
                   [ts EXCEPT ![i] = [st |-> "pending", rem |-> ReconnectDelay]], i)]

\* A catch that logs the error and does nothing more.
ReconnectCatchLost(ts) ==
  [handle |-> reconnectTimeout, timers |-> CollectTimers(ts, reconnectTimeout)]

\* catch (err) of reconnect(): the error is logged and the timer set again.
ReconnectCatch(ts) == SetReconnectTimeout(ts)

\* connectWS() with this.cookie = ck: throws without a cookie, and when the
\* WebSocket constructor rejects the URL; else this.ws is the new socket,
\* which is connecting, with ck in its handshake.
MakeSlots == {j \in SockIds : socks[j].st \in {"free", "closed"}}
CanMake == MakeSlots # {}

\* A connectWS() without its check of the cookie.
ConnectWSUnchecked(ck) ==
  IF ~urlValid \/ ~CanMake
  THEN [raised |-> TRUE, ws |-> ws, socks |-> socks]
  ELSE LET i == Min(MakeSlots)
       IN [raised |-> FALSE, ws |-> i,
           socks |-> CollectSocks(
                       [socks EXCEPT ![i] = [st |-> "connecting", hs |-> ck]], i)]

ConnectWS(ck) ==
  IF ck = Null \/ ~urlValid
  THEN [raised |-> TRUE, ws |-> ws, socks |-> socks]
  ELSE LET i == Min(MakeSlots)
       IN [raised |-> FALSE, ws |-> i,
           socks |-> CollectSocks(
                       [socks EXCEPT ![i] = [st |-> "connecting", hs |-> ck]], i)]

\* ---------------------------------------------------------------- login
\* The answers of the login endpoint.  A set-cookie entry is the list of its
\* parts between the semicolons; no set-cookie header at all is the empty
\* list of entries.
Responses ==
  { [rejected |-> TRUE, setCookie |-> <<>>],
    [rejected |-> FALSE, setCookie |-> <<>>],
    [rejected |-> FALSE, setCookie |-> << <<"sid=7", "Path=/">> >>],
    [rejected |-> FALSE, setCookie |-> << <<"vlk=1", "Path=/", "HttpOnly">> >>],
    [rejected |-> FALSE,
     setCookie |-> << <<"sid=7", "Path=/">>, <<"vlk=1", "Path=/">> >>] }

\* A login that is rejected and a login that succeeds.
PlainResponses ==
  { [rejected |-> TRUE, setCookie |-> <<>>],
    [rejected |-> FALSE, setCookie |-> << <<"vlk=1", "Path=/", "HttpOnly">> >>] }

\* c.startsWith('vlk=')
StartsWithVlk(entry) == entry[1] \in Cookies

\* res.headers['set-cookie']?.find(...), then cookieHeader.split(';')[0];
\* Null when there is no such entry.
CookieOf(resp) ==
  LET hits == {i \in 1..Len(resp.setCookie) : StartsWithVlk(resp.setCookie[i])}
  IN IF hits = {} THEN Null ELSE resp.setCookie[Min(hits)][1]

\* login(email, password), up to its await of the HTTP response.
Login(e, p) ==
  /\ Cardinality(ViaDirect) < MaxDirect
  /\ email' = e
  /\ password' = p
  /\ logins' = Append(logins, [via |-> "direct", stale |-> FALSE])
  /\ afterLogout' = FALSE
  /\ whileScheduled' = FALSE
  /\ obs' = [Quiet EXCEPT !.op = "login"]
  /\ UNCHANGED <<urlValid, cookie, ws, socks, reconnectTimeout, timers,
                 lastMessage, listeners, sinceClose, track>>

Without(seq, i) == [j \in 1..(Len(seq) - 1) |-> IF j < i THEN seq[j] ELSE seq[j + 1]]

\* The rest of login(), run when the HTTP response of call i arrives: the
\* call throws when the request was rejected or gave no vlk cookie, else it
\* stores the cookie and calls connectWS().  A call made by reconnect() has
\* its exception caught there, which sets the reconnect timer again.
LoginResponse(i, resp) ==
  LET call == logins[i]
      ck == CookieOf(resp)
      failed == resp.rejected \/ ck = Null
      conn == ConnectWS(ck)
      thrown == failed \/ conn.raised
      caught == thrown /\ call.via = "reconnect"
      again == ReconnectCatch(timers)
  IN /\ i \in 1..Len(logins)
     /\ \/ failed
        \/ ~urlValid
        \/ call.via = "reconnect" /\ CanMake
        \/ call.via = "direct" /\ Cardinality(MakeSlots) > Reserved
     /\ logins' = Without(logins, i)
     /\ cookie' = IF failed THEN cookie ELSE ck
     /\ ws' = IF failed THEN ws ELSE conn.ws
     /\ socks' = IF failed THEN socks ELSE conn.socks
     /\ reconnectTimeout' = IF caught THEN again.handle ELSE reconnectTimeout
     /\ timers' = IF caught THEN again.timers ELSE timers
     /\ obs' = [Quiet EXCEPT !.op = "loginResponse", !.via = call.via,
                             !.stale = call.stale, !.made = ~thrown,
                             !.stored = ~failed,
                             !.raised = thrown /\ ~caught,
                             !.armed = Armed(timers, timers')]
     /\ UNCHANGED <<urlValid, email, password, lastMessage, listeners,
                    sinceClose, afterLogout, whileScheduled, track>>

\* --------------------------------------------------------------- logout
\* ws.close() on an open socket starts its closing, in which it can still
\* deliver frames; on a connecting socket it aborts the handshake, and no
\* frame will come.  The socket's close event comes later in both cases.
\* close() does nothing on a socket that is closing or closed.
Close(ss, w) ==
  IF w # 0 /\ ss[w].st = "open"
  THEN [ss EXCEPT ![w].st = "closing"]
  ELSE IF w # 0 /\ ss[w].st = "connecting"
  THEN [ss EXCEPT ![w].st = "aborting"]
  ELSE ss

\* clearTimeout(h): a pending timer will not fire; nothing else changes.
ClearTimeout(ts, h) ==
  IF h # 0 /\ ts[h].st = "pending" THEN [ts EXCEPT ![h] = FreeTimer] ELSE ts

\* The client waits to reconnect: its socket is closed and the timer of
\* this.reconnectTimeout is pending.
ReconnectScheduled ==
  /\ ws # 0
  /\ socks[ws].st = "closed"
  /\ reconnectTimeout # 0
  /\ timers[reconnectTimeout].st = "pending"

\* A logout() that returns at once when there is no cookie.
LogoutOnlyWithSession ==
  LET e == IF cookie = Null
           THEN [events |-> <<>>, invoked |-> <<>>, raised |-> FALSE]
           ELSE Emit("logout", Undefined)
  IN /\ cookie' = Null
     /\ email' = IF cookie = Null THEN email ELSE Null
     /\ password' = IF cookie = Null THEN password ELSE Null
     /\ socks' = IF cookie = Null THEN socks ELSE CollectSocks(Close(socks, ws), 0)
     /\ ws' = IF cookie = Null THEN ws ELSE 0
     /\ timers' = IF cookie = Null THEN timers
                  ELSE CollectTimers(ClearTimeout(timers, reconnectTimeout), 0)
     /\ reconnectTimeout' = IF cookie = Null THEN reconnectTimeout ELSE 0
     /\ logins' = [j \in 1..Len(logins) |-> [logins[j] EXCEPT !.stale = TRUE]]
     /\ afterLogout' = TRUE
     /\ whileScheduled' = ReconnectScheduled
     /\ obs' = [Quiet EXCEPT !.op = "logout", !.events = e.events,
                             !.invoked = e.invoked, !.raised = e.raised,
                             !.armed = Armed(timers, timers')]
     /\ UNCHANGED <<urlValid, lastMessage, listeners, sinceClose, track>>

Logout ==
  LET e == Emit("logout", Undefined)
  IN /\ cookie' = Null
     /\ email' = Null
     /\ password' = Null
     /\ socks' = CollectSocks(Close(socks, ws), 0)
     /\ ws' = 0
     /\ timers' = CollectTimers(ClearTimeout(timers, reconnectTimeout), 0)
     /\ reconnectTimeout' = 0
     /\ logins' = [j \in 1..Len(logins) |-> [logins[j] EXCEPT !.stale = TRUE]]
     /\ afterLogout' = TRUE
     /\ whileScheduled' = ReconnectScheduled
     /\ obs' = [Quiet EXCEPT !.op = "logout", !.events = e.events,
                             !.invoked = e.invoked, !.raised = e.raised,
                             !.armed = Armed(timers, timers')]
     /\ UNCHANGED <<urlValid, lastMessage, listeners, sinceClose, track>>

\* -------------------------------------------------------- socket events
\* ws.on('open'): the socket is connected.  The handler then joins the
\* guilds and channels, which sends frames and changes no field of the
\* client.
SocketOpen(s) ==
  /\ socks[s].st = "connecting"
  /\ socks' = [socks EXCEPT ![s].st = "open"]
  /\ obs' = [Quiet EXCEPT !.op = "open"]
  /\ UNCHANGED <<urlValid, cookie, email, password, ws, reconnectTimeout,
                 timers, logins, lastMessage, listeners, sinceClose,
                 afterLogout, whileScheduled, track>>

\* A close handler that also forgets the message that waits.
SocketCloseClearsSlot(s) ==
  LET t == SetReconnectTimeout(timers)
  IN /\ s \in Live(socks)
     /\ Reserved < MaxTimers
     /\ socks' = CollectSocks([socks EXCEPT ![s].st = "closed"], ws)
     /\ reconnectTimeout' = t.handle
     /\ timers' = t.timers
     /\ sinceClose' = 0
     /\ lastMessage' = JNull
     /\ obs' = [Quiet EXCEPT !.op = "close", !.armed = Armed(timers, timers')]
     /\ UNCHANGED <<urlValid, cookie, email, password, ws, logins,
                    listeners, afterLogout, whileScheduled, track>>

\* ws.on('close'): every socket delivers it once, also a socket that
\* logout() closed or that failed to connect.  The handler sets the
\* reconnect timer.
SocketClose(s) ==
  LET t == SetReconnectTimeout(timers)
  IN /\ s \in Live(socks)
     /\ Reserved < MaxTimers
     /\ socks' = CollectSocks([socks EXCEPT ![s].st = "closed"], ws)
     /\ reconnectTimeout' = t.handle
     /\ timers' = t.timers
     /\ sinceClose' = 0
     /\ obs' = [Quiet EXCEPT !.op = "close", !.armed = Armed(timers, timers')]
     /\ UNCHANGED <<urlValid, cookie, email, password, ws, logins,
                    lastMessage, listeners, afterLogout, whileScheduled, track>>

\* ------------------------------------------------------------ reconnect
\* One second passes.
Tick ==
  /\ timers' = [i \in TimerIds |->
                  IF timers[i].st = "pending" /\ timers[i].rem > 0
                  THEN [timers[i] EXCEPT !.rem = @ - 1]
                  ELSE timers[i]]
  /\ sinceClose' = IF sinceClose < ReconnectDelay THEN sinceClose + 1 ELSE sinceClose
  /\ obs' = [Quiet EXCEPT !.op = "tick"]
  /\ UNCHANGED <<urlValid, cookie, email, password, ws, socks,
                 reconnectTimeout, logins, lastMessage, listeners,
                 afterLogout, whileScheduled, track>>

IsSet(x) == x # Null /\ x # ""

\* reconnect(): whether it logs in again, rather than calling connectWS().
ReLogin == ~IsSet(cookie) /\ IsSet(email) /\ IsSet(password)

\* Timer t fires and runs reconnect().
TimerFire(t) ==
  LET fired == [timers EXCEPT ![t].st = "done"]
      conn == ConnectWS(cookie)
      caught == ~ReLogin /\ conn.raised
      again == ReconnectCatch(fired)
  IN /\ timers[t].st = "pending"
     /\ timers[t].rem = 0
     /\ ReLogin \/ cookie = Null \/ ~urlValid \/ CanMake
     /\ logins' = IF ReLogin
                  THEN Append(logins, [via |-> "reconnect", stale |-> FALSE])
                  ELSE logins
     /\ ws' = IF ReLogin THEN ws ELSE conn.ws
     /\ socks' = IF ReLogin THEN socks ELSE conn.socks
     /\ reconnectTimeout' = IF caught THEN again.handle ELSE reconnectTimeout
     /\ timers' = IF caught THEN again.timers
                  ELSE CollectTimers(fired, reconnectTimeout)
     /\ obs' = [Quiet EXCEPT !.op = "reconnect",
                             !.via = IF ReLogin THEN "login" ELSE "connectWS",
                             !.made = ~ReLogin /\ ~conn.raised,
                             !.armed = Armed(fired, timers')]
     /\ UNCHANGED <<urlValid, cookie, email, password, lastMessage,
                    listeners, sinceClose, afterLogout, whileScheduled, track>>

\* --------------------------------------------------------------- frames
\* The texts the socket delivers, and what JSON.parse makes of each.
SyntaxError == [t |-> "SyntaxError"]

Message(id, text) == Obj([id |-> Str(id), text |-> Str(text)])
Frame(action, data) == Obj([action |-> Str(action), data |-> data])

RawFrames ==
  { "{\"action\":\"new_message\",\"data\":{\"id\":\"m1\",\"text\":\"hi\"}}",
    "{\"action\":\"new_message\",\"data\":{\"id\":\"m2\",\"text\":\"yo\"}}",
    "{\"action\":\"new_message\"}",
    "{\"action\":\"new_notification\",\"data\":{\"id\":\"c1\"}}",
    "{\"action\":\"new_notification\",\"data\":{\"id\":\"c2\"}}",
    "{\"action\":\"new_notification\"}",
    "{\"action\":\"delete_message\",\"data\":\"m1\"}",
    "{\"action\":\"startTyping\",\"room\":\"r1\",\"message\":\"bob\"}",
    "{\"action\":\"stopTyping\",\"room\":\"r1\",\"message\":\"bob\"}",
    "{\"action\":\"add_reaction\",\"data\":{\"id\":\"r1\"}}",
    "{\"action\":\"delete_reaction\",\"data\":{\"id\":\"r1\"}}",
    "{\"action\":\"update_member_roles\",\"data\":{\"id\":\"u1\"}}",
    "{\"action\":\"future_event\",\"data\":{\"id\":\"x1\"}}",
    "{\"data\":{\"id\":\"x1\"}}",
    "{\"action\":\"new_mess",
    "null" }

\* The frames of the pairing, and one frame that is republished as it is.
PairFrames ==
  { "{\"action\":\"new_message\",\"data\":{\"id\":\"m1\",\"text\":\"hi\"}}",
    "{\"action\":\"new_notification\",\"data\":{\"id\":\"c1\"}}",
    "{\"action\":\"startTyping\",\"room\":\"r1\",\"message\":\"bob\"}" }

\* The kind the application listens to.
ListenKinds == {"messageCreate"}

JSONParse(raw) ==
  CASE raw = "{\"action\":\"new_message\",\"data\":{\"id\":\"m1\",\"text\":\"hi\"}}"
         -> Frame("new_message", Message("m1", "hi"))
    [] raw = "{\"action\":\"new_message\",\"data\":{\"id\":\"m2\",\"text\":\"yo\"}}"
         -> Frame("new_message", Message("m2", "yo"))
    [] raw = "{\"action\":\"new_message\"}"
         -> Obj([action |-> Str("new_message")])
    [] raw = "{\"action\":\"new_notification\",\"data\":{\"id\":\"c1\"}}"
         -> Frame("new_notification", Obj([id |-> Str("c1")]))
    [] raw = "{\"action\":\"new_notification\",\"data\":{\"id\":\"c2\"}}"
         -> Frame("new_notification", Obj([id |-> Str("c2")]))
    [] raw = "{\"action\":\"new_notification\"}"
         -> Obj([action |-> Str("new_notification")])
    [] raw = "{\"action\":\"delete_message\",\"data\":\"m1\"}"
         -> Frame("delete_message", Str("m1"))
    [] raw = "{\"action\":\"startTyping\",\"room\":\"r1\",\"message\":\"bob\"}"
         -> Obj([action |-> Str("startTyping"), room |-> Str("r1"),
                 message |-> Str("bob")])
    [] raw = "{\"action\":\"stopTyping\",\"room\":\"r1\",\"message\":\"bob\"}"
         -> Obj([action |-> Str("stopTyping"), room |-> Str("r1"),
                 message |-> Str("bob")])
    [] raw = "{\"action\":\"add_reaction\",\"data\":{\"id\":\"r1\"}}"
         -> Frame("add_reaction", Obj([id |-> Str("r1")]))
    [] raw = "{\"action\":\"delete_reaction\",\"data\":{\"id\":\"r1\"}}"
         -> Frame("delete_reaction", Obj([id |-> Str("r1")]))
    [] raw = "{\"action\":\"update_member_roles\",\"data\":{\"id\":\"u1\"}}"
         -> Frame("update_member_roles", Obj([id |-> Str("u1")]))
    [] raw = "{\"action\":\"future_event\",\"data\":{\"id\":\"x1\"}}"
         -> Frame("future_event", Obj([id |-> Str("x1")]))
    [] raw = "{\"data\":{\"id\":\"x1\"}}"
         -> Obj([data |-> Obj([id |-> Str("x1")])])
    [] raw = "null" -> JNull
    [] OTHER -> SyntaxError

\* What handleWSMessage(raw) does: the new value of this.lastMessage, the
\* event it emits, the listeners that are called, and whether it throws.
Handled(slot, e, raised) ==
  [slot |-> slot, events |-> e.events, invoked |-> e.invoked, raised |-> raised]

NoEmit == [events |-> <<>>, invoked |-> <<>>, raised |-> FALSE]

\* A handler that publishes every frame it passes on as a raw event.
RepublishAsRaw(kind, payload) ==
  LET e == Emit("raw", payload) IN Handled(lastMessage, e, e.raised)

\* this.emit(kind, payload); break
Republish(kind, payload) ==
  LET e == Emit(kind, payload) IN Handled(lastMessage, e, e.raised)

\* A handler that publishes a message as soon as it comes.
NewMessageEmitsAtOnce(msg) ==
  IF Nullish(msg)
  THEN Handled(lastMessage, NoEmit, TRUE)
  ELSE LET e == Emit("messageCreate", msg) IN Handled(msg, e, e.raised)

\* case 'new_message': the text of the log line reads msg.id, which throws
\* when the frame has no data; else the message waits in this.lastMessage.
NewMessage(msg) ==
  IF Nullish(msg)
  THEN Handled(lastMessage, NoEmit, TRUE)
  ELSE Handled(msg, NoEmit, FALSE)

\* A handler that emits the waiting message without its channel.
NewNotificationNoChannel(notif) ==
  IF ~Truthy(lastMessage)
  THEN Handled(lastMessage, NoEmit, FALSE)
  ELSE LET e == Emit("messageCreate", lastMessage)
       IN Handled(IF e.raised THEN lastMessage ELSE JNull, e, e.raised)

\* A handler that gives the waiting message a channel only when it has none.
NewNotificationKeepsChannel(notif) ==
  IF ~Truthy(lastMessage)
  THEN Handled(lastMessage, NoEmit, FALSE)
  ELSE IF Nullish(notif) \/ lastMessage.t # "object"
  THEN Handled(lastMessage, NoEmit, TRUE)
  ELSE LET m == IF Nullish(Get(lastMessage, "channelId"))
                THEN Put(lastMessage, "channelId", Get(notif, "id"))
                ELSE lastMessage
           e == Emit("messageCreate", m)
       IN Handled(IF e.raised THEN m ELSE JNull, e, e.raised)

\* A handler that emits the notification when no message waits.
NewNotificationEmitsOrphan(notif) ==
  IF ~Truthy(lastMessage)
  THEN Republish("messageCreate", notif)
  ELSE IF Nullish(notif) \/ lastMessage.t # "object"
  THEN Handled(lastMessage, NoEmit, TRUE)
  ELSE LET m == Put(lastMessage, "channelId", Get(notif, "id"))
           e == Emit("messageCreate", m)
       IN Handled(IF e.raised THEN m ELSE JNull, e, e.raised)

\* case 'new_notification': with a message waiting, notif.id is written to
\* its channelId (which throws for a frame without data, and for a waiting
\* value that is no object), the message is emitted, and the slot is set to
\* null when emit returns.
NewNotification(notif) ==
  IF ~Truthy(lastMessage)
  THEN Handled(lastMessage, NoEmit, FALSE)
  ELSE IF Nullish(notif) \/ lastMessage.t # "object"
  THEN Handled(lastMessage, NoEmit, TRUE)
  ELSE LET m == Put(lastMessage, "channelId", Get(notif, "id"))
           e == Emit("messageCreate", m)
       IN Handled(IF e.raised THEN m ELSE JNull, e, e.raised)

\* A handler with JSON.parse outside any try: the SyntaxError leaves it.
HandleWSMessageUncaught(raw) ==
  LET event == JSONParse(raw)
      action == Get(event, "action")
      data == Get(event, "data")
  IN IF event = SyntaxError \/ Nullish(event)
     THEN Handled(lastMessage, NoEmit, TRUE)
     ELSE CASE action = Str("new_message") -> NewMessage(data)
            [] action = Str("new_notification") -> NewNotification(data)
            [] action = Str("delete_message") -> Republish("messageDelete", data)
            [] action \in {Str("startTyping"), Str("stopTyping")}
                 -> Republish("typing", event)
            [] action = Str("add_reaction") -> Republish("reactionAdd", data)
            [] action = Str("delete_reaction") -> Republish("reactionRemove", data)
            [] action = Str("update_member_roles")
                 -> Republish("memberRolesUpdate", data)
            [] OTHER -> Republish("raw", event)

HandleWSMessage(raw) ==
  LET event == JSONParse(raw)
      action == Get(event, "action")
      data == Get(event, "data")
  IN IF event = SyntaxError
     THEN Handled(lastMessage, NoEmit, FALSE)
     ELSE IF Nullish(event)
     THEN Handled(lastMessage, NoEmit, TRUE)
     ELSE CASE action = Str("new_message") -> NewMessage(data)
            [] action = Str("new_notification") -> NewNotification(data)
            [] action = Str("delete_message") -> Republish("messageDelete", data)
            [] action \in {Str("startTyping"), Str("stopTyping")}
                 -> Republish("typing", event)
            [] action = Str("add_reaction") -> Republish("reactionAdd", data)
            [] action = Str("delete_reaction") -> Republish("reactionRemove", data)
            [] action = Str("update_member_roles")
                 -> Republish("memberRolesUpdate", data)
            [] OTHER -> Republish("raw", event)

\* The new_message frames seen so far: the message of the last one (undefined
\* when it had none, or when there was no such frame yet) and how many
\* new_notification frames came after it (2 stands for two or more).
NoTrack == [m |-> Undefined, notifs |-> 0]

Tracked(event) ==
  IF Get(event, "action") = Str("new_message")
  THEN [m |-> Get(event, "data"), notifs |-> 0]
  ELSE IF Get(event, "action") = Str("new_notification")
  THEN [track EXCEPT !.notifs = IF @ < 2 THEN @ + 1 ELSE @]
  ELSE track

\* ws.on('message'): a socket, open or closing, delivers a text frame; the
\* handler is the same for every socket.
SocketMessage(raw) ==
  LET h == HandleWSMessage(raw)
  IN /\ \E s \in SockIds : socks[s].st \in {"open", "closing"}
     /\ lastMessage' = h.slot
     /\ track' = Tracked(JSONParse(raw))
     /\ obs' = [Quiet EXCEPT !.op = "message", !.frame = JSONParse(raw),
                             !.pending = Truthy(lastMessage),
                             !.kept = (h.slot = lastMessage),
                             !.events = h.events, !.invoked = h.invoked,
                             !.raised = h.raised]
     /\ UNCHANGED <<urlValid, cookie, email, password, ws, socks,
                    reconnectTimeout, timers, logins, listeners, sinceClose,
                    afterLogout, whileScheduled>>

\* ------------------------------------------------------- specifications
Init ==
  /\ urlValid \in BOOLEAN
  /\ cookie = Null
  /\ email = Null
  /\ password = Null
  /\ ws = 0
  /\ socks = [i \in SockIds |-> FreeSock]
  /\ reconnectTimeout = 0
  /\ timers = [i \in TimerIds |-> FreeTimer]
  /\ logins = <<>>
  /\ lastMessage = JNull
  /\ listeners = [k \in EventKinds |-> <<>>]
  /\ sinceClose = ReconnectDelay
  /\ afterLogout = FALSE
  /\ whileScheduled = FALSE
  /\ track = NoTrack
  /\ obs = Quiet

\* The connection lifecycle.
NextConn ==
  \/ \E e \in Emails, p \in Passwords : Login(e, p)
  \/ \E i \in 1..Len(logins), r \in Responses : LoginResponse(i, r)
  \/ Logout
  \/ \E s \in SockIds : SocketOpen(s)
  \/ \E s \in SockIds : SocketClose(s)
  \/ Tick
  \/ \E t \in TimerIds : TimerFire(t)

SpecConn == Init /\ [][NextConn]_vars

\* The connection lifecycle together with the frames the sockets deliver.
Next ==
  \/ \E e \in Emails, p \in Passwords : Login(e, p)
  \/ \E i \in 1..Len(logins), r \in PlainResponses : LoginResponse(i, r)
  \/ Logout
  \/ \E s \in SockIds : SocketOpen(s)
  \/ \E s \in SockIds : SocketClose(s)
  \/ Tick
  \/ \E t \in TimerIds : TimerFire(t)
  \/ \E raw \in PairFrames : SocketMessage(raw)

Spec == Init /\ [][Next]_vars

\* The frames delivered to registered listeners, on the sockets of logins.
NextObs ==
  \/ \E k \in ListenKinds, b \in {"returns", "throws"} : On(k, b)
  \/ \E e \in Emails, p \in Passwords : Login(e, p)
  \/ \E i \in 1..Len(logins), r \in PlainResponses : LoginResponse(i, r)
  \/ \E s \in SockIds : SocketOpen(s)
  \/ \E raw \in RawFrames : SocketMessage(raw)

SpecObs == Init /\ [][NextObs]_vars

\* The lifecycle with the scheduling of the event loop: time passes, and a
\* timer that is due fires.
LiveSpec ==
  /\ SpecConn
  /\ WF_vars(Tick)
  /\ \A t \in TimerIds : WF_vars(TimerFire(t))

\* ---------------------------------------------------------------- claims
Connecting == {i \in SockIds : socks[i].st \in {"connecting", "open"}}

\* C2: after logout(), and until login() is called again, no reconnect timer
\* is pending or gets scheduled and no reconnect attempt runs, whatever the
\* connection state logout() was called in.
C2_LogoutIsTerminal ==
  afterLogout =>
    /\ Pending(timers) = {}
    /\ obs.op # "reconnect"
    /\ obs.armed <= 0

\* C3: logout() called while a reconnect is scheduled emits exactly one logout
\* event, and until login() is called again no timer fires and no connection
\* attempt is made.
C3_LogoutCancelsReconnect ==
  whileScheduled =>
    /\ obs.op = "logout" =>
         /\ Len(obs.events) = 1
         /\ obs.events[1].kind = "logout"
    /\ obs.op # "reconnect"
    /\ ~obs.made

\* C4: a login() whose response arrives after logout() discards it: it stores
\* no cookie and opens no socket.
C4_StaleLoginDiscarded ==
  (obs.op = "loginResponse" /\ obs.stale) => (~obs.stored /\ ~obs.made)

\* C8: at most one socket is open or connecting and at most one reconnect
\* timer is pending, in every reachable state.
C8_OneSocketOneTimer ==
  /\ Cardinality(Connecting) <= 1
  /\ Cardinality(Pending(timers)) <= 1

\* C9: a socket close schedules a reconnect after the fixed delay, and no
\* reconnect attempt runs before that delay has passed since the close.
C9_ReconnectAfterDelay ==
  /\ obs.op = "close" =>
       /\ reconnectTimeout # 0
       /\ timers[reconnectTimeout] = [st |-> "pending", rem |-> ReconnectDelay]
  /\ obs.op = "reconnect" => sinceClose >= ReconnectDelay

\* A reconnect attempt that failed: connectWS() threw in reconnect(), or the
\* login() that reconnect() awaits threw.
FailedAttempt ==
  \/ obs.op = "reconnect" /\ obs.via = "connectWS" /\ ~obs.made
  \/ obs.op = "loginResponse" /\ obs.via = "reconnect" /\ ~obs.made

Rescheduled ==
  /\ ~obs.raised
  /\ obs.armed = 1
  /\ reconnectTimeout # 0
  /\ timers[reconnectTimeout] = [st |-> "pending", rem |-> ReconnectDelay]

\* C10: a failed reconnect attempt is caught and sets exactly one timer of
\* the fixed delay; and every socket close is followed by a reconnect attempt,
\* unless logout() is called first.
C10_RetriedIndefinitely ==
  /\ [](FailedAttempt => Rescheduled)
  /\ (obs.op = "close") ~> (obs.op \in {"reconnect", "logout"})

C10_Witness ==
  /\ obs.op = "loginResponse"
  /\ obs.via = "reconnect"
  /\ FailedAttempt
  /\ Rescheduled

\* The last step handled a frame of this action.
Handling(action) ==
  obs.op = "message" /\ Get(obs.frame, "action") = Str(action)

FrameData == Get(obs.frame, "data")

\* The one event of a notification paired with message m.
Pairing(m) ==
  << [kind |-> "messageCreate",
      payload |-> Put(m, "channelId", Get(FrameData, "id"))] >>

\* C1 (as claimed): a new_notification frame carrying n that follows a
\* new_message frame carrying m, with no other new_message frame between
\* them, emits exactly one messageCreate, which is m with channelId n.id.
C1_AsClaimed ==
  ( /\ Handling("new_notification")
    /\ ~Nullish(FrameData)
    /\ ~Nullish(track.m)
    /\ track.notifs >= 1 )
  => obs.events = Pairing(track.m)

\* C1 (amended): the same, when no other new_message frame and no other
\* new_notification frame came between the two.
C1_FirstNotificationPairs ==
  ( /\ Handling("new_notification")
    /\ ~Nullish(FrameData)
    /\ ~Nullish(track.m)
    /\ track.notifs = 1 )
  => obs.events = Pairing(track.m)

C1_Witness ==
  /\ Handling("new_notification")
  /\ track.m = Message("m2", "yo")
  /\ track.notifs = 1
  /\ Len(obs.events) = 1
  /\ obs.events[1].payload =
       Obj([id |-> Str("m2"), text |-> Str("yo"), channelId |-> Str("c1")])

\* The waiting message without the channel it was given.
Unchannelled(m) ==
  IF m.t = "object" THEN Obj([k \in (DOMAIN m.p) \ {"channelId"} |-> m.p[k]]) ELSE m

\* C5: a new_message frame always replaces what waits in the slot and emits
\* nothing; a new_notification frame emits at most one messageCreate, which
\* carries the message of the last new_message frame received.
C5_SlotHoldsMostRecent ==
  /\ Handling("new_message") =>
       /\ obs.events = <<>>
       /\ IF Nullish(FrameData) THEN ~Truthy(lastMessage)
          ELSE lastMessage = FrameData
  /\ Handling("new_notification") =>
       /\ Len(obs.events) <= 1
       /\ \A i \in 1..Len(obs.events) :
            /\ obs.events[i].kind = "messageCreate"
            /\ Unchannelled(obs.events[i].payload) = track.m

\* C6: a new_notification frame handled while nothing waits in the slot emits
\* no client event and leaves the slot empty.
C6_OrphanNotificationDropped ==
  (Handling("new_notification") /\ ~obs.pending) =>
    /\ obs.events = <<>>
    /\ ~Truthy(lastMessage)
    /\ ~obs.raised

C6_Witness ==
  /\ Handling("new_notification")
  /\ ~obs.pending
  /\ ~Nullish(track.m)
  /\ track.notifs = 2
  /\ Registered > 0

\* C7: an event is delivered to all the listeners of its kind, in the order
\* they were registered, also when one of them throws, and then the handling
\* of the frame does not throw.
C7_ListenersIsolated ==
  Len(obs.events) = 1 =>
    /\ obs.invoked = [i \in 1..Len(listeners[obs.events[1].kind]) |-> i]
    /\ obs.op = "message" => ~obs.raised

\* C11: when the reconnect timer fires with no cookie and with remembered
\* credentials, login is run again (its response is awaited and no socket is
\* made by the timer itself); in every other case a socket is made at once,
\* with the cookie the client holds.
C11_ReconnectBranches ==
  obs.op = "reconnect" =>
    IF ReLogin
    THEN /\ obs.via = "login"
         /\ ~obs.made
         /\ logins # <<>>
         /\ logins[Len(logins)] = [via |-> "reconnect", stale |-> FALSE]
    ELSE /\ obs.via = "connectWS"
         /\ obs.made
         /\ ws # 0
         /\ socks[ws] = [st |-> "connecting", hs |-> cookie]

\* C12: a frame whose text is not JSON is dropped: the step that handles it
\* emits no client event, does not throw, and changes neither the waiting
\* message, the session, the sockets, the timers nor the listeners, so that
\* the frames after it are handled as if it had not come.
C12_UnparseableDropped ==
  [][ (obs'.op = "message" /\ obs'.frame = SyntaxError) =>
        /\ obs'.events = <<>>
        /\ obs'.invoked = <<>>
        /\ ~obs'.raised
        /\ UNCHANGED <<cookie, email, password, ws, socks, reconnectTimeout,
                       timers, logins, lastMessage, listeners, track>> ]_vars

C12_Witness ==
  /\ obs.op = "message"
  /\ obs.frame = SyntaxError
  /\ Truthy(lastMessage)
  /\ Registered > 0
  /\ Cardinality(Connecting) > 0

\* The actions that have a case of their own in handleWSMessage.
KnownActions ==
  {"new_message", "new_notification", "delete_message", "startTyping",
   "stopTyping", "add_reaction", "delete_reaction", "update_member_roles"}

\* The last step handled a frame that parsed, with an action that has no case
\* of its own, or with no action at all.
HandlingUnknown ==
  /\ obs.op = "message"
  /\ obs.frame # SyntaxError
  /\ Get(obs.frame, "action") \notin {Str(a) : a \in KnownActions}

\* C13: a frame that parses and whose action is none of the known ones, or
\* that has no action, emits exactly one raw event, whose payload is the
\* parsed frame as it is.
C13_UnknownActionIsRaw ==
  HandlingUnknown =>
    obs.events = << [kind |-> "raw", payload |-> obs.frame] >>

\* The client event of each action that is passed on as it comes.
MappedKind(action) ==
  CASE action = "delete_message" -> "messageDelete"
    [] action \in {"startTyping", "stopTyping"} -> "typing"
    [] action = "add_reaction" -> "reactionAdd"
    [] action = "delete_reaction" -> "reactionRemove"
    [] action = "update_member_roles" -> "memberRolesUpdate"

PassedOn == KnownActions \ {"new_message", "new_notification"}

\* What such a frame carries: a typing frame is its own payload, the others
\* carry it in data.
PayloadOf(frame) ==
  IF Get(frame, "action") \in {Str("startTyping"), Str("stopTyping")}
  THEN frame
  ELSE Get(frame, "data")

\* C14: a frame of a known action other than new_message and new_notification
\* emits exactly one client event, of the kind the mapping gives for its
\* action and with the payload of the frame as it is, and leaves the waiting
\* message as it was.
C14_PassThrough ==
  \A a \in PassedOn :
    Handling(a) =>
      /\ obs.events = << [kind |-> MappedKind(a), payload |-> PayloadOf(obs.frame)] >>
      /\ obs.kept

C14_Witness ==
  /\ Handling("delete_reaction")
  /\ obs.events = << [kind |-> "reactionRemove", payload |-> Obj([id |-> Str("r1")])] >>
  /\ lastMessage = Message("m2", "yo")

\* C15: a login() of the application whose response gives no session cookie
\* throws to its caller, makes no socket and sets no timer, and has stored
\* nothing: credentials are kept only by a login that succeeded, so a client
\* that holds no cookie after the failure holds no credentials either.
C15_FailedLoginChangesNothing ==
  (obs.op = "loginResponse" /\ obs.via = "direct" /\ ~obs.stored) =>
    /\ obs.raised
    /\ ~obs.made
    /\ obs.armed = 0
    /\ cookie = Null => (email = Null /\ password = Null)

\* The client holds no session: no cookie, no credentials, no socket of its
\* own and no timer pending.
NoSession ==
  /\ cookie = Null
  /\ email = Null
  /\ password = Null
  /\ ws = 0
  /\ Pending(timers) = {}

\* C16: every logout() emits exactly one logout event, and no other step
\* emits one, so that the logout events are as many as the calls; a logout()
\* of a client that holds no session changes nothing but that.
C16_OneLogoutEventPerCall ==
  /\ [](obs.op = "logout" =>
          obs.events = << [kind |-> "logout", payload |-> Undefined] >>)
  /\ [](obs.op # "logout" =>
          \A i \in 1..Len(obs.events) : obs.events[i].kind # "logout")
  /\ [][ (NoSession /\ obs'.op = "logout") =>
           UNCHANGED <<cookie, email, password, ws, socks, timers>> ]_vars

C16_Witness ==
  /\ obs.op = "logout"
  /\ obs.events = << [kind |-> "logout", payload |-> Undefined] >>
  /\ \E i \in SockIds : socks[i].st = "closing"
  /\ logins # <<>>

\* C17: after logout(), and until login() is called again, no step emits a
\* client event, but for the logout event of logout() itself.
C17_SilentAfterLogout ==
  (afterLogout /\ obs.op # "logout") => obs.events = <<>>

EventOfFrame(e, f) ==
  LET action == Get(f, "action")
  IN CASE e.kind = "messageCreate" ->
            /\ action = Str("new_notification")
            /\ Get(e.payload, "channelId") = Get(Get(f, "data"), "id")
       [] e.kind = "raw" ->
            /\ action \notin {Str(a) : a \in KnownActions}
            /\ e.payload = f
       [] OTHER ->
            \E a \in PassedOn :
              /\ action = Str(a)
              /\ e.kind = MappedKind(a)
              /\ e.payload = PayloadOf(f)

\* C19: the handling of a frame emits at most one client event, within the
\* step that handles the frame (in which its listeners are called) and before
\* any later frame is looked at, and that event is the event of this frame,
\* never of an earlier one: the events come in the order of the frames that
\* caused them.
C19_InOrderOnePerFrame ==
  obs.op = "message" =>
    /\ Len(obs.events) <= 1
    /\ \A i \in 1..Len(obs.events) : EventOfFrame(obs.events[i], obs.frame)
    /\ \A i \in 1..Len(obs.events) :
         listeners[obs.events[i].kind] # <<>> => obs.invoked # <<>>

C19_Witness ==
  /\ Handling("stopTyping")
  /\ Len(obs.events) = 1
  /\ obs.events[1].kind = "typing"
  /\ track.m = Message("m1", "hi")
  /\ track.notifs = 0
  /\ lastMessage = Message("m1", "hi")
  /\ Registered > 0

\* C20: once a new_notification frame (one that carries its data) has been
\* handled, nothing waits in the slot, whatever the listeners of messageCreate
\* do, so that no later notification can emit the same message again.
C20_SlotEmptyAfterNotification ==
  (Handling("new_notification") /\ ~Nullish(FrameData)) => ~Truthy(lastMessage)

\* C21: the handling of a text frame does not throw into the message handler
\* of the socket, whatever the text is.  The steps looked at are those that
\* emit no event, so that no listener is the one that throws.
C21_FrameHandlingNeverRaises ==
  (obs.op = "message" /\ obs.events = <<>>) => ~obs.raised

\* C22: the waiting message is changed by the handling of new_message and
\* new_notification frames alone (login, logout, socket open and close, the
\* timer and all other frames leave it as it is), so that a message that
\* waits is paired with the first new_notification that comes after it, be
\* it on a later connection or after a later login.
C22_SlotChangedByFramesOnly ==
  /\ [][ lastMessage' # lastMessage =>
           /\ obs'.op = "message"
           /\ Get(obs'.frame, "action") \in
                {Str("new_message"), Str("new_notification")} ]_vars
  /\ []( ( /\ obs.op = "message"
           /\ Get(obs.frame, "action") = Str("new_notification")
           /\ track.notifs = 1
           /\ track.m = Message("m1", "hi") )
         => /\ obs.pending
            /\ obs.events = Pairing(Message("m1", "hi")) )

\* A message waits while the one socket alive is a new one, made by this
\* step, after the message came.
C22_Witness ==
  /\ obs.op = "loginResponse"
  /\ obs.made
  /\ ~afterLogout
  /\ lastMessage = Message("m1", "hi")
  /\ track.notifs = 0
  /\ Live(socks) = {ws}
  /\ socks[ws].st = "connecting"

\* Socket i is made by the step.
Made(i) == socks'[i].st = "connecting" /\ socks[i].st # "connecting"

\* C23: a socket is made only while the client holds a cookie, and it has
\* that cookie in its handshake; a reconnect that calls connectWS() with no
\* cookie fails and makes no socket, and so does every other step taken with
\* no cookie at its end.
C23_SocketOnlyWithCookie ==
  /\ [][ \A i \in SockIds :
           Made(i) =>
             /\ cookie' # Null
             /\ ws' = i
             /\ socks'[i].hs = cookie' ]_vars
  /\ [][ cookie' = Null => \A i \in SockIds : ~Made(i) ]_vars
  /\ []( (obs.op = "reconnect" /\ obs.via = "connectWS" /\ cookie = Null)
           => ~obs.made )

C23_Witness ==
  /\ obs.op = "reconnect"
  /\ obs.via = "connectWS"
  /\ obs.made
  /\ cookie = "vlk=1"
  /\ socks[ws] = [st |-> "connecting", hs |-> "vlk=1"]
  /\ Cardinality(Live(socks)) = 1

====
